---- MODULE Spec2Model ----
(***************************************************************************)
(* ComfyUIClient (src/comfy_client.py): building a job graph from the      *)
(* embedded workflow template, queueing it, waiting on the websocket for   *)
(* the completion event, and collecting the images named by the history.   *)
(*                                                                         *)
(* Python dicts are objects on a heap: the template, every node and every  *)
(* "inputs" mapping has an address, so that aliasing between the template  *)
(* and a built graph is something the model can exhibit.                   *)
(***************************************************************************)
EXTENDS Integers, Sequences, FiniteSets, TLC

(***************************************************************************)
(* Bounds of the model.                                                    *)
(***************************************************************************)
MaxCalls == 2      \* generate_image calls whose graphs are built (SpecBuild)
MaxMsgs == 3       \* events delivered on one websocket channel
MaxNodes == 2      \* node outputs in one history record
MaxDesc == 2       \* image descriptors in one history record

Calls == 1..MaxCalls

(***************************************************************************)
(* Python's None for optional values: None is <<>>, a value v is <<v>>.    *)
(***************************************************************************)
None == <<>>
Some(v) == <<v>>

(***************************************************************************)
(* Node ids (lines 16-21) and the embedded workflow (lines 24-82).  Floats *)
(* are kept in tenths (cfg 4.0 is 40); an edge reference [node, slot] is   *)
(* the tuple <<node, slot>>.                                               *)
(***************************************************************************)
NODE_CHECKPOINT_LOADER == "4"
NODE_POSITIVE_PROMPT == "16"
NODE_NEGATIVE_PROMPT == "40"
NODE_LATENT_IMAGE == "53"
NODE_KSAMPLER == "3"
NODE_SAVE_IMAGE == "9"

NodeOrder ==
  << "3", NODE_CHECKPOINT_LOADER, "8", NODE_SAVE_IMAGE, NODE_POSITIVE_PROMPT,
     NODE_NEGATIVE_PROMPT, NODE_LATENT_IMAGE >>

NodeIds == { NodeOrder[k] : k \in 1..Len(NodeOrder) }

Idx(id) == CHOOSE k \in 1..Len(NodeOrder) : NodeOrder[k] = id

WORKFLOW_TEMPLATE ==
  [ id \in NodeIds |->
      CASE id = "3" ->
             [ inputs |-> [ seed |-> 0, steps |-> 20, cfg |-> 40,
                            sampler_name |-> "euler", scheduler |-> "sgm_uniform",
                            denoise |-> 1,
                            model |-> << NODE_CHECKPOINT_LOADER, 0 >>,
                            positive |-> << NODE_POSITIVE_PROMPT, 0 >>,
                            negative |-> << NODE_NEGATIVE_PROMPT, 0 >>,
                            latent_image |-> << NODE_LATENT_IMAGE, 0 >> ],
               class_type |-> "KSampler" ]
        [] id = NODE_CHECKPOINT_LOADER ->
             [ inputs |-> [ ckpt_name |-> "model.safetensors" ],
               class_type |-> "CheckpointLoaderSimple" ]
        [] id = "8" ->
             [ inputs |-> [ samples |-> << NODE_KSAMPLER, 0 >>,
                            vae |-> << NODE_CHECKPOINT_LOADER, 2 >> ],
               class_type |-> "VAEDecode" ]
        [] id = NODE_SAVE_IMAGE ->
             [ inputs |-> [ filename_prefix |-> "ComfyUI_API",
                            images |-> << "8", 0 >> ],
               class_type |-> "SaveImage" ]
        [] id = NODE_POSITIVE_PROMPT ->
             [ inputs |-> [ text |-> "", clip |-> << NODE_CHECKPOINT_LOADER, 1 >> ],
               class_type |-> "CLIPTextEncode" ]
        [] id = NODE_NEGATIVE_PROMPT ->
             [ inputs |-> [ text |-> "", clip |-> << NODE_CHECKPOINT_LOADER, 1 >> ],
               class_type |-> "CLIPTextEncode" ]
        [] id = NODE_LATENT_IMAGE ->
             [ inputs |-> [ width |-> 1024, height |-> 1024, batch_size |-> 1 ],
               class_type |-> "EmptySD3LatentImage" ] ]

(***************************************************************************)
(* The heap right after the class body has run: node k of NodeOrder is     *)
(* node object k, and its "inputs" mapping is inputs object k.             *)
(***************************************************************************)
TemplateTop == [ id \in NodeIds |-> Idx(id) ]

TemplateNodes ==
  [ k \in 1..Len(NodeOrder) |->
      [ inputs |-> k, class_type |-> WORKFLOW_TEMPLATE[NodeOrder[k]].class_type ] ]

TemplateInputsDangling ==
  [ k \in 1..Len(NodeOrder) |->
      IF NodeOrder[k] = NODE_SAVE_IMAGE
      THEN [ filename_prefix |-> "ComfyUI_API", images |-> << "7", 0 >> ]
      ELSE WORKFLOW_TEMPLATE[NodeOrder[k]].inputs ]

TemplateInputs ==
  [ k \in 1..Len(NodeOrder) |-> WORKFLOW_TEMPLATE[NodeOrder[k]].inputs ]

(***************************************************************************)
(* Arguments of generate_image (lines 169-180).                            *)
(***************************************************************************)
DefaultArgs ==
  [ positive_prompt |-> "a city", negative_prompt |-> "blurry",
    model_name |-> "sd3.safetensors", output_path |-> "out.png",
    width |-> 1024, height |-> 1024, seed |-> None, steps |-> 20, cfg |-> 40,
    sampler_name |-> "euler", scheduler |-> "sgm_uniform" ]

OtherArgs ==
  [ positive_prompt |-> "a cat", negative_prompt |-> "text",
    model_name |-> "xl.safetensors", output_path |-> "cat.png",
    width |-> 512, height |-> 768, seed |-> None, steps |-> 25, cfg |-> 45,
    sampler_name |-> "dpmpp_2m", scheduler |-> "karras" ]

SeedArgs == { None, Some(0), Some(42) }

ArgSets ==
  { [ a EXCEPT !.seed = s ] : a \in { DefaultArgs, OtherArgs }, s \in SeedArgs }

\* The call of the example block (lines 255-265).
ExampleArgs ==
  [ DefaultArgs EXCEPT !.seed = Some(42), !.steps = 25, !.cfg = 45 ]

(***************************************************************************)
(* random.randint(a, b) (line 212) returns any integer N with a <= N <= b; *)
(* the draws explored are the two ends of that range and their neighbours. *)
(***************************************************************************)
RandLo == 0
RandHi == 1000000000

RandIntWider(a, b) == { a, a + 1, b, b + 1 }

RandInt(a, b) == { a, a + 1, b - 1, b }

(***************************************************************************)
(* Job ids the server hands out, and the value of a missing dict key.      *)
(***************************************************************************)
JobIds == { "X", "Y" }
NoId == "-"
Null == "null"

\* What _queue_prompt hands back: kind "none" is None, kind "dict" a parsed
\* JSON object whose 'prompt_id' is prompt_id (NoId: the key is missing).
UnsetData == [ kind |-> "unset", prompt_id |-> NoId ]

\* str(uuid.uuid4()) of line 92, and the ids the server gives to the jobs it
\* is sent, first job first.
ClientUuid == "uuid-1"
ServerIds == << "X", "Y", "Z", "W" >>

(***************************************************************************)
(* What ws.recv() (line 136) produces.  kind "text" is a str that parses   *)
(* to an event with message['type'], data['node'] and data['prompt_id'];   *)
(* "garbage" is a str that the body of the loop cannot process (json.loads *)
(* or .get raises); "binary" is a bytes frame; "error" is recv raising     *)
(* because the channel closed or the transport failed.                     *)
(***************************************************************************)
Frame(k, t, n, j) == [ kind |-> k, type |-> t, node |-> n, prompt_id |-> j ]

Events ==
  { Frame("text", "executing", n, j) : n \in { Null, NODE_KSAMPLER }, j \in JobIds }
    \cup { Frame("text", "progress", Null, j) : j \in JobIds }

Binary == Frame("binary", "", Null, NoId)
Garbage == Frame("garbage", "", Null, NoId)
RecvError == Frame("error", "", Null, NoId)

NoFrame == Frame("unset", "", Null, NoId)

WideFrames == Events \cup { Binary, Garbage }
NarrowFrames == { Frame("text", "executing", Null, j) : j \in JobIds }

(***************************************************************************)
(* History records (lines 148-159): history is None or a dict with one key *)
(* id (NoId: the empty dict) whose record's 'outputs' lists node outputs   *)
(* in iteration order; a node output has an 'images' list or none.         *)
(***************************************************************************)
StorageClasses == { "output", "preview" }

Descriptors ==
  [ filename : { "a.png", "b.png" }, subfolder : { "" }, type : StorageClasses ]

SeqsUpTo(S, n) == UNION { [ 1..k -> S ] : k \in 0..n }

NodeOutputs(n) ==
  { [ has_images |-> FALSE, images |-> << >> ] }
    \cup { [ has_images |-> TRUE, images |-> s ] : s \in SeqsUpTo(Descriptors, n) }

UnsetHistory == [ kind |-> "unset", id |-> NoId, outputs |-> << >> ]
NoneHistory == [ kind |-> "none", id |-> NoId, outputs |-> << >> ]

RECURSIVE FlattenReversed(_)
FlattenReversed(outputs) ==
  IF outputs = << >> THEN << >>
  ELSE FlattenReversed(Tail(outputs))
         \o (IF Head(outputs).has_images THEN Head(outputs).images ELSE << >>)

\* The descriptors in the order the loops of lines 156-159 visit them.
RECURSIVE Flatten(_)
Flatten(outputs) ==
  IF outputs = << >> THEN << >>
  ELSE (IF Head(outputs).has_images THEN Head(outputs).images ELSE << >>)
         \o Flatten(Tail(outputs))

OutputsUpTo(nodes, desc) ==
  { o \in SeqsUpTo(NodeOutputs(desc), nodes) : Len(Flatten(o)) <= desc }

HistoriesOver(outs) ==
  { [ kind |-> "dict", id |-> NoId, outputs |-> << >> ] }
    \cup { [ kind |-> "dict", id |-> j, outputs |-> o ] : j \in JobIds, o \in outs }

WideHistories == HistoriesOver(OutputsUpTo(MaxNodes, MaxDesc))
NarrowHistories == HistoriesOver(OutputsUpTo(1, 1))

VARIABLES
  template,          \* _WORKFLOW_TEMPLATE: node id -> address of the node object
  nodeHeap,          \* node objects: [inputs |-> address, class_type |-> string]
  inputsHeap,        \* "inputs" mappings
  prompt_workflow,   \* call -> the graph it built (node id -> node address)
  args,              \* call -> the arguments it was called with
  pc,                \* where the followed generate_image call stands
  posted,            \* POST /prompt requests issued
  prompt_data,       \* what _queue_prompt returned (line 219)
  prompt_id,         \* line 224
  channel,           \* the websocket of _get_final_images: none, open, closed
  received,          \* what ws.recv() produced so far, oldest first
  histRequests,      \* GET /history requests issued
  history,           \* what _get_history returned (line 148)
  pos,               \* index of the descriptor whose GET /view is outstanding
  fetched,           \* descriptors for which GET /view was issued, in order
  responses,         \* the answers to those requests, in order
  images,            \* the list "images" (line 153): decoded images, by descriptor
  result,            \* how generate_image ended
  saved,             \* the image written to output_path, if any
  client_id,         \* self.client_id (line 92)
  jobs,              \* the server's jobs, in submission order
  wpc,               \* overlapping calls: where each call stands
  wjob,              \* overlapping calls: each call's prompt_id
  wchan,             \* overlapping calls: frames sent on a call's channel, not yet received
  wout               \* overlapping calls: each call's last "out" (line 136)

buildVars == << template, nodeHeap, inputsHeap, prompt_workflow, args >>

callVars ==
  << pc, posted, prompt_data, prompt_id, channel, received, histRequests,
     history, pos, fetched, responses, images, result, saved >>

watchVars == << client_id, jobs, wpc, wjob, wchan, wout >>

vars == << buildVars, callVars, watchVars >>

ShallowCopy(top, nh, ih) == [ top |-> top, nodes |-> nh, inputs |-> ih ]

(***************************************************************************)
(* copy.deepcopy (line 201): a fresh node object and a fresh inputs        *)
(* mapping for every node of the copied graph.                             *)
(***************************************************************************)
DeepCopy(top, nh, ih) ==
  LET n == Len(NodeOrder) IN
  [ top    |-> [ id \in NodeIds |-> Len(nh) + Idx(id) ],
    nodes  |-> nh \o [ k \in 1..n |->
                 [ inputs |-> Len(ih) + k,
                   class_type |-> nh[top[NodeOrder[k]]].class_type ] ],
    inputs |-> ih \o [ k \in 1..n |-> ih[nh[top[NodeOrder[k]]].inputs] ] ]

\* g[node]["inputs"][key] = v on heap h
SetInput(h, node, key, v) ==
  [ h EXCEPT !.inputs[h.nodes[h.top[node]].inputs][key] = v ]

SeedForFalsy(seed, r) == IF seed # None /\ seed[1] # 0 THEN seed[1] ELSE r

\* line 212: seed if seed is not None else random.randint(0, 1_000_000_000)
SeedFor(seed, r) == IF seed # None THEN seed[1] ELSE r

BuildWorkflowSwapsPrompts(top, nh, ih, p, r) ==
  LET h0 == DeepCopy(top, nh, ih)
      h1 == SetInput(h0, NODE_CHECKPOINT_LOADER, "ckpt_name", p.model_name)
      h2 == SetInput(h1, NODE_POSITIVE_PROMPT, "text", p.negative_prompt)
      h3 == SetInput(h2, NODE_NEGATIVE_PROMPT, "text", p.positive_prompt)
      h4 == SetInput(h3, NODE_LATENT_IMAGE, "width", p.width)
      h5 == SetInput(h4, NODE_LATENT_IMAGE, "height", p.height)
      h6 == SetInput(h5, NODE_KSAMPLER, "seed", SeedFor(p.seed, r))
      h7 == SetInput(h6, NODE_KSAMPLER, "steps", p.steps)
      h8 == SetInput(h7, NODE_KSAMPLER, "cfg", p.cfg)
      h9 == SetInput(h8, NODE_KSAMPLER, "sampler_name", p.sampler_name)
  IN  SetInput(h9, NODE_KSAMPLER, "scheduler", p.scheduler)

(***************************************************************************)
(* Lines 201-216: the copy and the ten overwrites.                         *)
(***************************************************************************)
BuildWorkflow(top, nh, ih, p, r) ==
  LET h0 == DeepCopy(top, nh, ih)
      h1 == SetInput(h0, NODE_CHECKPOINT_LOADER, "ckpt_name", p.model_name)
      h2 == SetInput(h1, NODE_POSITIVE_PROMPT, "text", p.positive_prompt)
      h3 == SetInput(h2, NODE_NEGATIVE_PROMPT, "text", p.negative_prompt)
      h4 == SetInput(h3, NODE_LATENT_IMAGE, "width", p.width)
      h5 == SetInput(h4, NODE_LATENT_IMAGE, "height", p.height)
      h6 == SetInput(h5, NODE_KSAMPLER, "seed", SeedFor(p.seed, r))
      h7 == SetInput(h6, NODE_KSAMPLER, "steps", p.steps)
      h8 == SetInput(h7, NODE_KSAMPLER, "cfg", p.cfg)
      h9 == SetInput(h8, NODE_KSAMPLER, "sampler_name", p.sampler_name)
  IN  SetInput(h9, NODE_KSAMPLER, "scheduler", p.scheduler)

\* The graph of call c as a value: node id -> [inputs, class_type].
Deref(top) ==
  [ id \in NodeIds |->
      [ inputs |-> inputsHeap[nodeHeap[top[id]].inputs],
        class_type |-> nodeHeap[top[id]].class_type ] ]

Built == DOMAIN prompt_workflow

Build(c, p, r) ==
  /\ c \notin Built
  /\ LET h == BuildWorkflow(template, nodeHeap, inputsHeap, p, r) IN
       /\ nodeHeap' = h.nodes
       /\ inputsHeap' = h.inputs
       /\ prompt_workflow' = (c :> h.top) @@ prompt_workflow
  /\ args' = (c :> p) @@ args
  /\ UNCHANGED template

BuildInit ==
  /\ template = TemplateTop
  /\ nodeHeap = TemplateNodes
  /\ inputsHeap = TemplateInputs
  /\ prompt_workflow = << >>
  /\ args = << >>

Init ==
  /\ BuildInit
  /\ pc = "idle"
  /\ posted = 0
  /\ prompt_data = UnsetData
  /\ prompt_id = NoId
  /\ channel = "none"
  /\ received = << >>
  /\ histRequests = 0
  /\ history = UnsetHistory
  /\ pos = 0
  /\ fetched = << >>
  /\ responses = << >>
  /\ images = << >>
  /\ result = "running"
  /\ saved = None
  /\ client_id = ClientUuid
  /\ jobs = << >>
  /\ wpc = [ w \in Calls |-> "idle" ]
  /\ wjob = [ w \in Calls |-> NoId ]
  /\ wchan = [ w \in Calls |-> << >> ]
  /\ wout = [ w \in Calls |-> NoFrame ]

(***************************************************************************)
(* SpecBuild: the graph builder alone, over several calls and arguments.   *)
(***************************************************************************)
BuildCall ==
  /\ \E c \in Calls, p \in ArgSets, r \in RandInt(RandLo, RandHi) : Build(c, p, r)
  /\ UNCHANGED << callVars, watchVars >>

SpecBuild == Init /\ [][BuildCall]_vars

(***************************************************************************)
(* HTTP answers of the server, as urllib and json see them: the request    *)
(* raises URLError ("urlerror"), the body is not JSON ("unparseable"), or  *)
(* the body parses ("ok").                                                 *)
(***************************************************************************)
Resp(st, b) == [ status |-> st, body |-> b ]

QueueResponses ==
  { Resp("urlerror", NoId), Resp("unparseable", NoId), Resp("ok", NoId) }
    \cup { Resp("ok", j) : j \in JobIds }

HistoryResponses(H) ==
  { Resp("urlerror", NoneHistory), Resp("unparseable", NoneHistory) }
    \cup { Resp("ok", h) : h \in H }

\* Bodies of GET /view: a decodable image, no bytes at all, undecodable bytes.
ImageResponses ==
  { Resp("urlerror", ""), Resp("ok", "png"), Resp("ok", "empty"), Resp("ok", "corrupt") }

\* _queue_prompt, lines 99-104
QueuePrompt(resp) ==
  CASE resp.status = "urlerror" -> [ kind |-> "none", prompt_id |-> NoId ]
    [] resp.status = "unparseable" -> [ kind |-> "raise", prompt_id |-> NoId ]
    [] OTHER -> [ kind |-> "dict", prompt_id |-> resp.body ]

QueueFailedNoneOnly(pd) == pd.kind = "none"

\* line 220: not prompt_data or 'prompt_id' not in prompt_data
QueueFailed(pd) == pd.kind = "none" \/ pd.prompt_id = NoId

\* _get_history, lines 119-124
GetHistory(resp) ==
  CASE resp.status = "urlerror" -> NoneHistory
    [] resp.status = "unparseable" -> [ kind |-> "raise", id |-> NoId, outputs |-> << >> ]
    [] OTHER -> resp.body

HistoryMissingFalsyOnly(h, pid) == h.kind = "none" \/ h.id = NoId

\* line 149: not history or prompt_id not in history
HistoryMissing(h, pid) == h.kind = "none" \/ h.id = NoId \/ h.id # pid

\* _get_image, lines 110-115
GetImage(resp) == IF resp.status = "urlerror" THEN None ELSE Some(resp.body)

ImageStepStrict(image_bytes) ==
  CASE image_bytes = Some("empty") -> "skip"
    [] image_bytes = None \/ image_bytes = Some("corrupt") -> "raise"
    [] OTHER -> "append"

\* lines 165-166: falsy bytes are skipped, Image.open raises on bytes that are
\* no image
ImageStep(image_bytes) ==
  CASE image_bytes = None \/ image_bytes = Some("empty") -> "skip"
    [] image_bytes = Some("corrupt") -> "raise"
    [] OTHER -> "append"

LoopStepAnyJob(out, pid) ==
  CASE out.kind = "error" -> "raise"
    [] out.kind = "garbage" -> "raise"
    [] out.kind = "binary" -> "continue"
    [] OTHER ->
         IF out.type = "executing" /\ out.node = Null THEN "break" ELSE "continue"

LoopStepSwallowsError(out, pid) ==
  CASE out.kind = "error" -> "break"
    [] out.kind = "garbage" -> "raise"
    [] out.kind = "binary" -> "continue"
    [] OTHER ->
         IF out.type = "executing" /\ out.node = Null /\ out.prompt_id = pid
         THEN "break" ELSE "continue"

LoopStepAnyType(out, pid) ==
  CASE out.kind = "error" -> "raise"
    [] out.kind = "garbage" -> "raise"
    [] out.kind = "binary" -> "continue"
    [] OTHER ->
         IF out.node = Null /\ out.prompt_id = pid THEN "break" ELSE "continue"

\* One turn of the loop of lines 135-143 on what recv produced.
LoopStep(out, pid) ==
  CASE out.kind = "error" -> "raise"
    [] out.kind = "garbage" -> "raise"
    [] out.kind = "binary" -> "continue"
    [] OTHER ->
         IF out.type = "executing" /\ out.node = Null /\ out.prompt_id = pid
         THEN "break" ELSE "continue"

CloseOnBreakOnly(ch, exit) == IF exit = "break" THEN "closed" ELSE ch

\* lines 144-145: finally: ws.close(), however the try block was left
Finally(ch, exit) == "closed"

GenerateResultAlwaysTrue(final_images) == "True"

\* lines 229-235
GenerateResult(final_images) == IF final_images # << >> THEN "True" ELSE "False"

SavedFileLast(final_images, path) ==
  IF final_images # << >>
  THEN Some([ path |-> path, image |-> final_images[Len(final_images)] ])
  ELSE None

\* line 230
SavedFile(final_images, path) ==
  IF final_images # << >>
  THEN Some([ path |-> path, image |-> final_images[1] ])
  ELSE None

Caller == 1

\* _get_final_images returned final_images to generate_image (lines 227-235)
Finish(final_images) ==
  /\ pc' = "done"
  /\ result' = GenerateResult(final_images)
  /\ saved' = SavedFile(final_images, args[Caller].output_path)

\* an exception leaves generate_image
Raise ==
  /\ pc' = "done"
  /\ result' = "raise"
  /\ UNCHANGED saved

(***************************************************************************)
(* generate_image, lines 201-219: build the graph and POST it.             *)
(***************************************************************************)
Generate ==
  /\ pc = "idle"
  /\ \E r \in RandInt(RandLo, RandHi) : Build(Caller, ExampleArgs, r)
  /\ posted' = posted + 1
  /\ pc' = "queue"
  /\ UNCHANGED << prompt_data, prompt_id, channel, received, histRequests,
                  history, pos, fetched, responses, images, result, saved >>
  /\ UNCHANGED watchVars

(***************************************************************************)
(* The answer to POST /prompt arrives: lines 100-104 and 219-225.          *)
(***************************************************************************)
QueueResponse ==
  /\ pc = "queue"
  /\ \E resp \in QueueResponses :
       LET pd == QueuePrompt(resp) IN
         /\ prompt_data' = pd
         /\ IF pd.kind = "raise"
            THEN Raise /\ UNCHANGED prompt_id
            ELSE IF QueueFailed(pd)
            THEN /\ pc' = "done"
                 /\ result' = "False"
                 /\ UNCHANGED << prompt_id, saved >>
            ELSE /\ prompt_id' = pd.prompt_id
                 /\ pc' = "connect"
                 /\ UNCHANGED << result, saved >>
  /\ UNCHANGED << buildVars, posted, channel, received, histRequests, history,
                  pos, fetched, responses, images >>
  /\ UNCHANGED watchVars

(***************************************************************************)
(* ws.connect, line 132, succeeds or raises.                               *)
(***************************************************************************)
Connect ==
  /\ pc = "connect"
  /\ \E ok \in BOOLEAN :
       IF ok
       THEN /\ channel' = "open"
            /\ pc' = "waiting"
            /\ UNCHANGED << result, saved >>
       ELSE /\ channel' = Finally(channel, "raise")
            /\ Raise
  /\ UNCHANGED << buildVars, posted, prompt_data, prompt_id, received,
                  histRequests, history, pos, fetched, responses, images >>
  /\ UNCHANGED watchVars

(***************************************************************************)
(* One ws.recv() and the rest of the loop body, lines 136-145; on break    *)
(* the history request of line 148 goes out.                               *)
(***************************************************************************)
Recv(frames, maxLen) ==
  /\ pc = "waiting"
  /\ \E out \in frames \cup { RecvError } :
       /\ out # RecvError => Len(received) < maxLen
       /\ received' = Append(received, out)
       /\ LET exit == LoopStep(out, prompt_id) IN
            CASE exit = "continue" ->
                   UNCHANGED << pc, channel, histRequests, result, saved >>
              [] exit = "break" ->
                   /\ channel' = Finally(channel, exit)
                   /\ histRequests' = histRequests + 1
                   /\ pc' = "history"
                   /\ UNCHANGED << result, saved >>
              [] OTHER ->
                   /\ channel' = Finally(channel, exit)
                   /\ Raise
                   /\ UNCHANGED histRequests
  /\ UNCHANGED << buildVars, posted, prompt_data, prompt_id, history, pos,
                  fetched, responses, images >>
  /\ UNCHANGED watchVars

(***************************************************************************)
(* The answer to GET /history arrives: lines 120-124 and 148-160, up to    *)
(* the first GET /view.                                                    *)
(***************************************************************************)
HistoryResponse(H) ==
  /\ pc = "history"
  /\ \E resp \in HistoryResponses(H) :
       LET h == GetHistory(resp) IN
         /\ history' = h
         /\ IF h.kind = "raise"
            THEN Raise /\ UNCHANGED << pos, fetched >>
            ELSE IF HistoryMissing(h, prompt_id) \/ Flatten(h.outputs) = << >>
            THEN Finish(<< >>) /\ UNCHANGED << pos, fetched >>
            ELSE /\ pos' = 1
                 /\ fetched' = << Flatten(h.outputs)[1] >>
                 /\ pc' = "fetch"
                 /\ UNCHANGED << result, saved >>
  /\ UNCHANGED << buildVars, posted, prompt_data, prompt_id, channel, received,
                  histRequests, responses, images >>
  /\ UNCHANGED watchVars

(***************************************************************************)
(* The answer to GET /view arrives: lines 111-115 and 165-166, then the    *)
(* next GET /view or the return of line 167.                               *)
(***************************************************************************)
FetchImage ==
  /\ pc = "fetch"
  /\ \E resp \in ImageResponses :
       LET todo == Flatten(history.outputs)
           step == ImageStep(GetImage(resp))
           imgs == IF step = "append" THEN Append(images, todo[pos]) ELSE images
       IN  /\ responses' = Append(responses, resp)
           /\ IF step = "raise"
              THEN Raise /\ UNCHANGED << pos, fetched, images >>
              ELSE /\ images' = imgs
                   /\ IF pos = Len(todo)
                      THEN Finish(imgs) /\ UNCHANGED << pos, fetched >>
                      ELSE /\ pos' = pos + 1
                           /\ fetched' = Append(fetched, todo[pos + 1])
                           /\ UNCHANGED << pc, result, saved >>
  /\ UNCHANGED << buildVars, posted, prompt_data, prompt_id, channel, received,
                  histRequests, history >>
  /\ UNCHANGED watchVars

(***************************************************************************)
(* Spec: one generate_image call against every stream of up to MaxMsgs     *)
(* frames and short history records.  SpecCollect: the same call against   *)
(* a short stream and every history record within MaxNodes and MaxDesc.    *)
(***************************************************************************)
RecvStream == Recv(WideFrames, MaxMsgs)
RecvShort == Recv(NarrowFrames, 1)
HistoryShort == HistoryResponse(NarrowHistories)
HistoryWide == HistoryResponse(WideHistories)

Next ==
  \/ Generate
  \/ QueueResponse
  \/ Connect
  \/ RecvStream
  \/ HistoryShort
  \/ FetchImage

Spec == Init /\ [][Next]_vars

NextCollect ==
  \/ Generate
  \/ QueueResponse
  \/ Connect
  \/ RecvShort
  \/ HistoryWide
  \/ FetchImage

SpecCollect == Init /\ [][NextCollect]_vars

(***************************************************************************)
(* Overlapping generate_image calls on one client instance (one thread per *)
(* call), from the POST on, with the server they talk to.  The server runs *)
(* each job it was sent: it reports the sampler node, then the end of the  *)
(* graph (node null), each as an 'executing' event pushed on every channel *)
(* that is open for the job's client id at that moment; a channel opened   *)
(* later never sees an event sent before it existed.  Failed submissions   *)
(* and failing channels are followed by Spec and left out here.            *)
(***************************************************************************)
ChannelOpen(w) == wpc[w] = "waiting"

\* lines 96-101 and 219-225: the POST carries self.client_id, the answer
\* carries the new job's id
WSubmit(w) ==
  /\ wpc[w] = "idle"
  /\ Len(jobs) < Len(ServerIds)
  /\ jobs' = Append(jobs, [ id |-> ServerIds[Len(jobs) + 1], client_id |-> client_id,
                            state |-> "queued" ])
  /\ wjob' = [ wjob EXCEPT ![w] = ServerIds[Len(jobs) + 1] ]
  /\ wpc' = [ wpc EXCEPT ![w] = "queued" ]
  /\ UNCHANGED << buildVars, callVars, client_id, wchan, wout >>

\* lines 130-133: a websocket of its own, addressed by self.client_id
WConnect(w) ==
  /\ wpc[w] = "queued"
  /\ wpc' = [ wpc EXCEPT ![w] = "waiting" ]
  /\ wchan' = [ wchan EXCEPT ![w] = << >> ]
  /\ UNCHANGED << buildVars, callVars, client_id, jobs, wjob, wout >>

\* the server pushes one event of job k
ServerEmit(k) ==
  /\ k \in DOMAIN jobs
  /\ jobs[k].state \in { "queued", "executing" }
  /\ LET ev == Frame("text", "executing",
                     IF jobs[k].state = "queued" THEN NODE_KSAMPLER ELSE Null,
                     jobs[k].id)
     IN  wchan' = [ w \in Calls |->
                      IF ChannelOpen(w) /\ jobs[k].client_id = client_id
                      THEN Append(wchan[w], ev) ELSE wchan[w] ]
  /\ jobs' = [ jobs EXCEPT ![k].state =
                 IF jobs[k].state = "queued" THEN "executing" ELSE "completed" ]
  /\ UNCHANGED << buildVars, callVars, client_id, wpc, wjob, wout >>

\* lines 136-145: one recv and the rest of the loop body
WRecv(w) ==
  /\ wpc[w] = "waiting"
  /\ wchan[w] # << >>
  /\ wout' = [ wout EXCEPT ![w] = Head(wchan[w]) ]
  /\ LET exit == LoopStep(Head(wchan[w]), wjob[w]) IN
       /\ wpc' = [ wpc EXCEPT ![w] =
                     CASE exit = "continue" -> "waiting"
                       [] exit = "break" -> "left"
                       [] OTHER -> "raised" ]
       /\ wchan' = [ wchan EXCEPT ![w] =
                       IF exit = "continue" THEN Tail(wchan[w]) ELSE << >> ]
  /\ UNCHANGED << buildVars, callVars, client_id, jobs, wjob >>

Submits == \E w \in Calls : WSubmit(w)
Connects == \E w \in Calls : WConnect(w)
Emits == \E k \in 1..Len(ServerIds) : ServerEmit(k)
Recvs == \E w \in Calls : WRecv(w)

NextWatch ==
  \/ Submits
  \/ Connects
  \/ Emits
  \/ Recvs

SpecWatch == Init /\ [][NextWatch]_vars

\* Every thread that can take its next step takes it, and the server goes on
\* with every job it has.
SpecWatchFair ==
  /\ SpecWatch
  /\ \A w \in Calls : WF_vars(WConnect(w)) /\ WF_vars(WRecv(w))
  /\ \A k \in 1..Len(ServerIds) : WF_vars(ServerEmit(k))

(***************************************************************************)
(* Properties.                                                             *)
(***************************************************************************)
Last(s) == s[Len(s)]
Range(s) == { s[i] : i \in DOMAIN s }

\* The completion event of job j: a text event of type 'executing' whose node
\* is null and whose prompt_id is j.
IsCompletionOf(m, j) ==
  m.kind = "text" /\ m.type = "executing" /\ m.node = Null /\ m.prompt_id = j

\* The seed in the sampler node of the graph call c built.
SeedOf(c) == Deref(prompt_workflow[c])[NODE_KSAMPLER].inputs.seed

\* The POST /prompt failed at transport level, or its answer could not be
\* parsed or carried no job id.
SubmitFailed ==
  \/ prompt_data.kind \in { "none", "raise" }
  \/ prompt_data.kind = "dict" /\ prompt_data.prompt_id = NoId

\* C1: the wait loop stays waiting on every event whose node is non-null or
\* whose prompt_id is not the watched job id, and is left by break exactly
\* once, at the first completion event of the watched job: nothing is received
\* after it, and the history request goes out then and only then.
C1_WaitEndsAtFirstCompletion ==
  LET n == Len(received) IN
    /\ \A i \in 1..(n - 1) : ~IsCompletionOf(received[i], prompt_id)
    /\ ( n > 0 /\ received[n].kind = "text"
         /\ (received[n].node # Null \/ received[n].prompt_id # prompt_id) )
         => pc = "waiting"
    /\ (n > 0 /\ IsCompletionOf(received[n], prompt_id))
         => (pc # "waiting" /\ histRequests = 1)
    /\ histRequests > 0
         => (histRequests = 1 /\ n > 0 /\ IsCompletionOf(received[n], prompt_id))

C1_Witness ==
  /\ prompt_id = "X"
  /\ received = << Frame("text", "executing", NODE_KSAMPLER, "X"),
                   Frame("text", "executing", Null, "Y"),
                   Frame("text", "executing", Null, "X") >>
  /\ pc = "history"

\* C2: only descriptors of storage class 'output' are fetched, and only they
\* appear among the returned images.
C2_OnlyOutputFetched ==
  /\ \A i \in DOMAIN fetched : fetched[i].type = "output"
  /\ \A i \in DOMAIN images : images[i].type = "output"

\* C3: when recv raises (the channel closed, the transport failed) before the
\* completion event arrived, generate_image ends by raising: no history
\* request, no artifact request, no saved file, no image list.
C3_InterruptedWaitRaises ==
  (received # << >> /\ Last(received).kind = "error")
    => /\ pc = "done"
       /\ result = "raise"
       /\ histRequests = 0
       /\ fetched = << >>
       /\ images = << >>
       /\ saved = None

C3_Witness ==
  /\ Len(received) = 3
  /\ received[1].kind = "text"
  /\ received[2].kind = "binary"
  /\ received[3].kind = "error"
  /\ result = "raise"

\* C4 (as claimed): a call whose submission failed never ends with the result
\* that a job completed with an empty image list ends with.
C4_FailureDistinctFromEmpty ==
  (pc = "done" /\ SubmitFailed) => result # GenerateResult(<< >>)

\* The job completed, collection returned normally and found no image.
CompletedEmpty ==
  pc = "done" /\ histRequests = 1 /\ result # "raise" /\ images = << >>

\* C4 (amended): generate_image tells 'an image was saved' (True) from
\* everything else only: a submission that failed with a transport error or
\* without a job id returns False, and so does a job that completed with an
\* empty image list; only an unparseable submission answer raises.
C4_OnlySuccessDistinguished ==
  /\ (pc = "done" /\ SubmitFailed)
       => result = (IF prompt_data.kind = "raise" THEN "raise" ELSE "False")
  /\ CompletedEmpty => (result = "False" /\ saved = None)

C4_Witness ==
  /\ CompletedEmpty
  /\ history.kind = "dict"
  /\ history.id = prompt_id
  /\ result = "False"

\* C5: a failed fetch never ends the collection: every descriptor of the
\* record is still requested, the descriptors whose fetch succeeded are
\* returned and the failed ones are not; two descriptors with one failed
\* fetch give one image, the one that was fetched.
FetchOk(i) == responses[i] = Resp("ok", "png")
FetchFailed(i) == responses[i].status = "urlerror"

C5_FailedFetchIsSkipped ==
  LET todo == Flatten(history.outputs) IN
    /\ (responses # << >> /\ FetchFailed(Len(responses))) => result # "raise"
    /\ (pc = "done" /\ responses # << >> /\ result # "raise")
         => /\ fetched = todo
            /\ Len(responses) = Len(todo)
            /\ Len(images) = Cardinality({ i \in DOMAIN responses : FetchOk(i) })
            /\ \A i \in DOMAIN responses : FetchOk(i) => todo[i] \in Range(images)
            /\ \A d \in Range(images) :
                 \E i \in DOMAIN responses : FetchOk(i) /\ todo[i] = d

C5_Witness ==
  /\ pc = "done"
  /\ Len(fetched) = 2
  /\ fetched[1] # fetched[2]
  /\ FetchFailed(1)
  /\ FetchOk(2)
  /\ images = << fetched[2] >>
  /\ result = "True"

\* C6: a failed submission ends the call at once: no stream channel, no
\* history or artifact request, no saved file, and the caller is told (False
\* or an exception).
C6_SubmitFailureShortCircuits ==
  SubmitFailed
    => /\ pc = "done"
       /\ result \in { "False", "raise" }
       /\ channel = "none"
       /\ histRequests = 0
       /\ fetched = << >>
       /\ saved = None

C6_Witness ==
  /\ prompt_data.kind = "dict"
  /\ prompt_data.prompt_id = NoId
  /\ result = "False"

\* C7: after a successful wait, a history request that failed at transport
\* level or an answer without a record for the job id ends collection with
\* an empty list: nothing raised, no artifact request, nothing saved.
C7_NoHistoryGivesEmpty ==
  ( histRequests = 1
    /\ (history.kind = "none" \/ (history.kind = "dict" /\ history.id # prompt_id)) )
    => /\ pc = "done"
       /\ result = "False"
       /\ fetched = << >>
       /\ images = << >>
       /\ saved = None

C7_Witness ==
  /\ histRequests = 1
  /\ history.kind = "dict"
  /\ history.id \in JobIds \ { prompt_id }
  /\ Flatten(history.outputs) # << >>
  /\ result = "False"

\* C8: the channel is open only while the call is inside the wait loop: it
\* is closed when the call has ended, however the wait was left, and before
\* the history request goes out.
C8_ChannelClosedOnEveryPath ==
  /\ channel = "open" => pc = "waiting"
  /\ pc = "done" => channel \in { "none", "closed" }
  /\ (pc = "done" /\ ~SubmitFailed) => channel = "closed"
  /\ histRequests > 0 => channel = "closed"

C8_Witness ==
  /\ pc = "done"
  /\ received # << >>
  /\ Last(received).kind = "garbage"
  /\ channel = "closed"

\* C9: the template keeps its initial value through every build, and a
\* built graph shares no node object and no inputs mapping with the template
\* or with the graph of another call.
NodeAddrs(top) == { top[id] : id \in NodeIds }
InputAddrs(top) == { nodeHeap[top[id]].inputs : id \in NodeIds }

C9_TemplateNeverMutated ==
  /\ template = TemplateTop
  /\ Deref(template) = WORKFLOW_TEMPLATE
  /\ \A c \in Built :
       /\ NodeAddrs(prompt_workflow[c]) \cap NodeAddrs(template) = {}
       /\ InputAddrs(prompt_workflow[c]) \cap InputAddrs(template) = {}
       /\ \A d \in Built \ { c } :
            /\ NodeAddrs(prompt_workflow[c]) \cap NodeAddrs(prompt_workflow[d]) = {}
            /\ InputAddrs(prompt_workflow[c]) \cap InputAddrs(prompt_workflow[d]) = {}

C9_Witness ==
  \E c \in Built, d \in Built :
    /\ c # d
    /\ args[c].model_name # args[d].model_name
    /\ Deref(prompt_workflow[c]) # Deref(prompt_workflow[d])

\* C10 (as claimed): with seed unset, the submitted seed is at least 0 and
\* strictly less than 1_000_000_000.
C10_SeedBelowUpperEnd ==
  \A c \in Built :
    args[c].seed = None => (SeedOf(c) >= RandLo /\ SeedOf(c) < RandHi)

\* C10 (amended): with seed unset, the submitted seed lies in the closed
\* range [0, 1_000_000_000]: at least 0 and at most 1_000_000_000.
C10_SeedInClosedRange ==
  \A c \in Built :
    args[c].seed = None => (SeedOf(c) >= RandLo /\ SeedOf(c) <= RandHi)

C10_Witness ==
  \E c \in Built : args[c].seed = None /\ SeedOf(c) = RandHi

\* The descriptors of a record's outputs, node after node in the order the
\* nodes are listed and image after image within a node.
RECURSIVE DescriptorOrder(_)
DescriptorOrder(outputs) ==
  IF outputs = << >> THEN << >>
  ELSE LET n == Len(outputs) IN
         DescriptorOrder(SubSeq(outputs, 1, n - 1))
           \o (IF outputs[n].has_images THEN outputs[n].images ELSE << >>)

\* The descriptors of order whose fetch, among the first k, succeeded.
RECURSIVE FetchedOk(_, _)
FetchedOk(order, k) ==
  IF k = 0 THEN << >>
  ELSE FetchedOk(order, k - 1) \o (IF FetchOk(k) THEN << order[k] >> ELSE << >>)

\* C11: the collected images are the successfully fetched descriptors in the
\* order nodes are listed and, within a node, images are listed: nothing is
\* reordered and nothing is dropped as a duplicate.
C11_ImagesInRecordOrder ==
  /\ Len(responses) <= Len(DescriptorOrder(history.outputs))
  /\ images = FetchedOk(DescriptorOrder(history.outputs), Len(responses))

C11_Witness ==
  /\ pc = "done"
  /\ result = "True"
  /\ Len(history.outputs) = 2
  /\ Len(history.outputs[1].images) = 1
  /\ history.outputs[2].images = history.outputs[1].images
  /\ images = history.outputs[1].images \o history.outputs[2].images

\* C12: the steps of one call come in the order submit, open channel,
\* completion observed, history read, artifact reads: no channel before the
\* submit answer carried a job id, no history request before the completion
\* event of that job was received, no artifact request before the history
\* answer.
C12_ProtocolOrder ==
  /\ channel # "none"
       => (posted = 1 /\ prompt_data.kind = "dict" /\ prompt_data.prompt_id = prompt_id
           /\ prompt_id \in JobIds)
  /\ received # << >> => channel # "none"
  /\ histRequests > 0
       => (channel # "none" /\ \E i \in DOMAIN received : IsCompletionOf(received[i], prompt_id))
  /\ history.kind # "unset" => histRequests = 1
  /\ fetched # << >>
       => (history.kind = "dict" /\ history.id = prompt_id /\ histRequests = 1)

C12_Witness ==
  /\ pc = "done"
  /\ result = "True"
  /\ fetched # << >>
  /\ Len(received) > 1

\* The stream without the frames said to be ignorable: binary frames and
\* text events whose type is not 'executing'.
Ignorable(m) == m.kind = "binary" \/ (m.kind = "text" /\ m.type # "executing")

RECURSIVE Strip(_)
Strip(s) ==
  IF s = << >> THEN << >>
  ELSE (IF Ignorable(Head(s)) THEN << >> ELSE << Head(s) >>) \o Strip(Tail(s))

\* How the wait stands: still waiting, left by break, or left by raising.
WaitState ==
  IF pc = "waiting" THEN "waiting" ELSE IF histRequests > 0 THEN "break" ELSE "raise"

\* C16: binary frames and text events of another type are ignored entirely:
\* how the wait stands depends on the other frames alone, so that adding or
\* removing ignorable frames anywhere changes neither where the wait ends nor
\* how, and an ignorable frame never ends it, not even with a null node and
\* the watched job id.
C16_IgnorableFramesIgnored ==
  received # << >>
    => LET rest == Strip(received) IN
         /\ Ignorable(Last(received)) => pc = "waiting"
         /\ WaitState =
              (IF rest = << >> THEN "waiting"
               ELSE IF IsCompletionOf(Last(rest), prompt_id) THEN "break"
               ELSE IF Last(rest).kind \in { "error", "garbage" } THEN "raise"
               ELSE "waiting")
         /\ WaitState # "waiting" => ~Ignorable(Last(received))

C16_Witness ==
  /\ prompt_id = "X"
  /\ received = << Frame("text", "progress", Null, "X"), Binary,
                   Frame("text", "executing", Null, "X") >>
  /\ pc = "history"

\* The template with the call's values in the parameterised fields.
Parameterised(p, seed) ==
  [ WORKFLOW_TEMPLATE EXCEPT
      ![NODE_CHECKPOINT_LOADER].inputs.ckpt_name = p.model_name,
      ![NODE_POSITIVE_PROMPT].inputs.text = p.positive_prompt,
      ![NODE_NEGATIVE_PROMPT].inputs.text = p.negative_prompt,
      ![NODE_LATENT_IMAGE].inputs.width = p.width,
      ![NODE_LATENT_IMAGE].inputs.height = p.height,
      ![NODE_KSAMPLER].inputs.seed = seed,
      ![NODE_KSAMPLER].inputs.steps = p.steps,
      ![NODE_KSAMPLER].inputs.cfg = p.cfg,
      ![NODE_KSAMPLER].inputs.sampler_name = p.sampler_name,
      ![NODE_KSAMPLER].inputs.scheduler = p.scheduler ]

\* C17: a built graph is the template with ckpt_name, the two texts, width,
\* height, seed, steps, cfg, sampler_name and scheduler set to the call's
\* values; the node set, class types, edges, denoise, batch_size and
\* filename_prefix are the template's.
C17_OnlyParameterisedFieldsDiffer ==
  \A c \in Built :
    Deref(prompt_workflow[c]) = Parameterised(args[c], SeedOf(c))

C17_Witness ==
  \E c \in Built :
    /\ args[c].scheduler = "karras"
    /\ args[c].positive_prompt # args[c].negative_prompt
    /\ Deref(prompt_workflow[c])[NODE_KSAMPLER].inputs.scheduler = "karras"

\* C18: generate_image returns True exactly when the collected list is not
\* empty, and then the first image of the list, and no other, is saved to
\* output_path; with an empty list nothing is saved and False is returned.
C18_TrueIffFirstImageSaved ==
  (pc = "done" /\ result # "raise")
    => /\ result = "True" <=> images # << >>
       /\ result = "False" <=> images = << >>
       /\ images # << >>
            => saved = Some([ path |-> args[Caller].output_path, image |-> images[1] ])
       /\ images = << >> => saved = None

C18_Witness ==
  /\ pc = "done"
  /\ result = "True"
  /\ Len(images) = 2
  /\ images[1] # images[2]
  /\ saved # None
  /\ saved[1].image = images[1]

\* C19: a seed the caller supplied is submitted unchanged, 0 included; the
\* drawn value is used only when seed is None.
C19_SuppliedSeedUnchanged ==
  \A c \in Built : args[c].seed # None => SeedOf(c) = args[c].seed[1]

C19_Witness ==
  \E c \in Built, d \in Built :
    /\ args[c].seed = Some(0) /\ SeedOf(c) = 0
    /\ args[d].seed = None /\ SeedOf(d) # 0

\* The inputs that hold edge references [node_id, output_index].
EdgeKeys ==
  { "model", "positive", "negative", "latent_image", "samples", "vae", "images", "clip" }

EdgesResolve(g) ==
  \A id \in DOMAIN g :
    \A k \in (DOMAIN g[id].inputs) \cap EdgeKeys : g[id].inputs[k][1] \in DOMAIN g

\* C20: in the template and in every graph built from it, every edge
\* reference names a node of that same graph.
C20_EdgesNameExistingNodes ==
  /\ EdgesResolve(Deref(template))
  /\ \A c \in Built : EdgesResolve(Deref(prompt_workflow[c]))

C20_Witness ==
  \E c \in Built :
    /\ Deref(prompt_workflow[c]) # Deref(template)
    /\ Deref(prompt_workflow[c])[NODE_SAVE_IMAGE].inputs.images[1] = "8"

\* C14: overlapping calls on one client share only client_id, which keeps the
\* value given at construction; a call's watcher, which is sent the events of
\* every job of the client on its own channel, leaves its wait only on the
\* completion event of its own prompt_id and never raises on another job's
\* event, whatever the interleaving.
JobOf(w) == { k \in DOMAIN jobs : jobs[k].id = wjob[w] }

C14_WatcherLeavesOnOwnCompletionOnly ==
  /\ client_id = ClientUuid
  /\ \A k \in DOMAIN jobs : jobs[k].client_id = client_id
  /\ \A w \in Calls :
       /\ wpc[w] # "raised"
       /\ wpc[w] = "left" => IsCompletionOf(wout[w], wjob[w])
       /\ wpc[w] = "waiting" => ~ IsCompletionOf(wout[w], wjob[w])

\* one watcher has received the other job's completion event and still waits,
\* the other watcher has left on it
C14_Witness ==
  \E w, v \in Calls :
    /\ w # v
    /\ wpc[w] = "waiting"
    /\ wpc[v] = "left"
    /\ wout[w] = wout[v]
    /\ IsCompletionOf(wout[w], wjob[v])

\* C15: once the server has emitted the completion event of a call's job, the
\* call eventually leaves its wait, in every interleaving of server and
\* client steps, the one where the event is emitted between the submit
\* response and the opening of the channel included.
JobCompleted(w) == \E k \in JobOf(w) : jobs[k].state = "completed"

C15_CompletionLeadsToCollection ==
  \A w \in Calls : JobCompleted(w) ~> (wpc[w] = "left")

====
